---- MODULE Spec2Model ----
(***************************************************************************)
(* A model of the CP-SAT cut-selection driver of main_cpsat.py:            *)
(* catalog normalisation, the depth upper bound, the 0/1 model that        *)
(* build_model emits, the solver's contract, and solve_circuit's           *)
(* single-phase and two-phase orchestration.                               *)
(***************************************************************************)
EXTENDS Integers, Sequences, FiniteSets, TLC

VARIABLES
    data,             \* the catalog: raw at first, normalised after loading
    objective_mode,   \* solve_circuit's objective_mode argument
    pc,               \* position in solve_circuit
    model,            \* the model build_model returned last
    depth_bound,      \* the depth upper bound UB (None before it is computed)
    status_a,         \* Phase A's status string ("" before Phase A)
    best_depth,       \* solver_a.Value(D) (None before Phase A)
    phase_a_cuts,     \* the cuts captured from Phase A
    status_b,         \* Phase B's status string ("" before Phase B)
    final_status,     \* final_status
    final_objective,  \* final_objective
    chosen_cuts,      \* chosen_cuts: node name -> 0-based cut index
    out_file,         \* the chosen-cuts file at chosen_json_path
    ret,              \* solve_circuit's return value
    exc,              \* the exception solve_circuit raised ("" when none)
    exit_code,        \* the exit code of the command-line run (None while running)
    dfs               \* _compute_depth_upper_bound's search, when followed call by call

vars == <<data, objective_mode, pc, model, depth_bound, status_a, best_depth, phase_a_cuts,
          status_b, final_status, final_objective, chosen_cuts, out_file, ret,
          exc, exit_code, dfs>>

----------------------------------------------------------------------------
(* Bounds of the checked inputs *)

\* most cuts the first node of a bare-list catalog carries
MaxCuts == 2
\* largest area_cost and depth_cost of a cut record in the cost catalogs
MaxCost == 2

\* Python's None, for best_depth, final_objective and objective_value
None == -1

\* a cost field whose JSON value is not an integer (a string such as "deep"):
\* truthy, rejected by int(), and never equal to a cost
NotInteger == -2

PI == "x"
Missing == "zz"
NamePool == {"a", "b", "Nout"}

----------------------------------------------------------------------------
(* Python helpers *)

Range(s) == {s[i] : i \in DOMAIN s}

Max(S) == CHOOSE x \in S : \A y \in S : y <= x

Min(S) == CHOOSE x \in S : \A y \in S : x <= y

\* d.get(k, default)
DictGet(d, k, default) == IF k \in DOMAIN d THEN d[k] ELSE default

\* a or b, on integers
PyOr(a, b) == IF a # 0 THEN a ELSE b

EmptyDict == [n \in {} |-> 0]

RECURSIVE SumOver(_, _)
SumOver(S, f) ==
    IF S = {} THEN 0
    ELSE LET x == CHOOSE y \in S : TRUE IN f[x] + SumOver(S \ {x}, f)

----------------------------------------------------------------------------
(* The catalogs the solve is run on *)

\* a cut given as a bare list of leaves
BareCut(leaves) == [form |-> "list", leaves |-> leaves]

\* a cut given as a record with all three cost fields
DictCut(leaves, inv, area, dep) ==
    [form |-> "dict", leaves |-> leaves, inv_cost |-> inv,
     area_cost |-> area, depth_cost |-> dep]

\* the node names of a catalog, in catalog order: one node; two nodes, none
\* named Nout; two nodes, Nout first
NodeNameSeqs == {<<"a">>, <<"a", "b">>, <<"Nout", "a">>}

\* leaf lists of a cut of node n: a primary input, n itself (a self-cut),
\* another node, or (in a one-node catalog) n itself beside a primary input
LeafLists(n, names) ==
    {<<PI>>, <<n>>} \cup {<<m>> : m \in names \ {n}}
    \cup (IF names = {n} THEN {<<n, PI>>} ELSE {})

\* the cut lists of node n with at most k cuts
CutLists(n, names, k) ==
    UNION {[1..j -> {BareCut(l) : l \in LeafLists(n, names)}] : j \in 1..k}

\* the first node of a catalog carries up to MaxCuts cuts, every other node one
CutsAt(i) == IF i = 1 THEN MaxCuts ELSE 1

AllCutLists ==
    UNION {CutLists(p[1][p[2]], Range(p[1]), CutsAt(p[2])) :
              p \in {q \in NodeNameSeqs \X (1..Cardinality(NamePool)) :
                        q[2] \in DOMAIN q[1]}}

NodeLists(ns) ==
    {[i \in DOMAIN ns |-> [name |-> ns[i], cuts |-> cs[i]]] :
        cs \in {c \in [DOMAIN ns -> AllCutLists] :
                  \A i \in DOMAIN ns : c[i] \in CutLists(ns[i], Range(ns), CutsAt(i))}}

OutputLists == {<<>>, <<"a">>, <<Missing>>}

\* bare-list catalogs: every shape of leaves, default costs, no "inputs" key
ShapeCatalogs ==
    {[nodes |-> nd, outputs |-> outs] :
        nd \in UNION {NodeLists(ns) : ns \in NodeNameSeqs}, outs \in OutputLists}

Costs == 1..MaxCost

\* record-form catalogs: node a over a primary input, and Nout with one cut
\* over a and one over a primary input, under every assignment of the costs
\* that vary
CostCatalogs ==
    {[nodes |-> <<[name |-> "a",
                   cuts |-> <<DictCut(<<PI>>, 0, a1, d1)>>],
                  [name |-> "Nout",
                   cuts |-> <<DictCut(<<"a">>, i2, 1, 1),
                              DictCut(<<PI, PI>>, 0, a3, 1)>>]>>,
      outputs |-> <<"Nout">>,
      inputs |-> <<PI>>] :
        a1 \in Costs, d1 \in Costs, i2 \in {0, 1}, a3 \in Costs}

\* a cut given as a record with some cost fields left out
PartialCut(leaves, fields) ==
    [k \in {"form", "leaves"} \cup fields |->
        CASE k = "form" -> "dict"
          [] k = "leaves" -> leaves
          [] k = "inv_cost" -> 0
          [] k = "area_cost" -> Len(leaves)
          [] k = "depth_cost" -> 1]

\* one-node catalogs whose cut record leaves cost fields out: all three, or
\* all but inv_cost
OmittedCatalogs ==
    {[nodes |-> <<[name |-> "a", cuts |-> <<PartialCut(leaves, fields)>>]>>,
      outputs |-> <<>>] :
        leaves \in {<<PI>>, <<PI, PI>>}, fields \in {{}, {"inv_cost"}}}

\* one-node catalogs whose cut record carries a depth_cost that is not an
\* integer; the cut's only leaf is a primary input
BadCostCatalogs ==
    {[nodes |-> <<[name |-> "a", cuts |-> <<DictCut(<<PI>>, 0, 1, NotInteger)>>]>>,
      outputs |-> outs] : outs \in OutputLists}

\* one-root catalogs whose two cuts order differently under og and area: cuts
\* of cost (inv 5, area 2) and (inv 0, area 3), and cuts whose og costs are 21
\* and 20
CostOrderCatalogs ==
    {[nodes |-> <<[name |-> "a", cuts |-> cs]>>, outputs |-> <<"a">>] :
        cs \in {<<DictCut(<<PI, PI>>, 5, 2, 1), DictCut(<<PI>>, 0, 3, 1)>>,
                <<DictCut(<<PI>>, 2, 1, 1), DictCut(<<PI, PI>>, 0, 20, 1)>>}}

\* a catalog whose root has a cut over node a with a depth_cost of 23, beyond
\* twice the depth bound, beside a cut of depth_cost 1 over primary inputs
DeepCutCatalogs ==
    {[nodes |-> <<[name |-> "a", cuts |-> <<DictCut(<<PI>>, 0, 1, 1)>>],
                  [name |-> "Nout",
                   cuts |-> <<DictCut(<<"a">>, 0, 1, 23),
                              DictCut(<<PI, PI>>, 0, 2, 1)>>]>>,
      outputs |-> <<"Nout">>,
      inputs |-> <<PI>>]}

\* the depth costs that give a one-node catalog an odd greedy depth above 20
OddDepthCosts == {21, 23}

\* one-node catalogs whose only cut, over a primary input, has an odd depth_cost
OddBaseCatalogs ==
    {[nodes |-> <<[name |-> "a", cuts |-> <<DictCut(<<PI>>, 0, 1, dc)>>]>>,
      outputs |-> <<>>] : dc \in OddDepthCosts}

\* the catalog with no node and no output: its root set is empty
EmptyCatalogs == {[nodes |-> <<>>, outputs |-> <<>>]}

\* catalogs that name one of their own nodes in "inputs": node a over a primary
\* input, and the root Nout over a; the declared input is a or Nout
InputNodeCatalogs ==
    {[nodes |-> <<[name |-> "a", cuts |-> <<DictCut(<<PI>>, 0, 1, 1)>>],
                  [name |-> "Nout", cuts |-> <<DictCut(<<"a">>, 0, 1, 1)>>]>>,
      outputs |-> <<"Nout">>,
      inputs |-> <<inp>>] : inp \in {"a", "Nout"}}

\* a catalog with a node no root depends on: the declared output a has one
\* cut of area_cost 20 over a primary input, and node b one cut of area_cost 1
SpareNodeCatalogs ==
    {[nodes |-> <<[name |-> "a", cuts |-> <<DictCut(<<PI>>, 0, 20, 1)>>],
                  [name |-> "b", cuts |-> <<DictCut(<<PI>>, 0, 1, 1)>>]>>,
      outputs |-> <<"a">>]}

Catalogs ==
    ShapeCatalogs \cup CostCatalogs \cup OmittedCatalogs \cup BadCostCatalogs
    \cup CostOrderCatalogs \cup DeepCutCatalogs \cup OddBaseCatalogs
    \cup EmptyCatalogs \cup InputNodeCatalogs \cup SpareNodeCatalogs

\* the --objective choices of the command line
CliChoices == {"og", "inv", "area", "depth", "overall"}

\* a mode that apply_objective does not know
UnknownMode == "bogus"

\* the values solve_circuit's objective_mode argument takes: the command
\* line's choices, the argument's default, and an unknown mode
ObjectiveModes == CliChoices \cup {"original", UnknownMode}

----------------------------------------------------------------------------
(* _normalize_cuts_data *)

NormalizeCut(cut) ==
    IF cut.form = "dict" THEN cut
    ELSE [form |-> "dict", leaves |-> cut.leaves, inv_cost |-> 0,
          area_cost |-> Len(cut.leaves), depth_cost |-> 1]

NormalizeCutsData(d) ==
    LET nodes == DictGet(d, "nodes", <<>>)
        normalized_nodes ==
            [i \in DOMAIN nodes |->
                [nodes[i] EXCEPT !.cuts =
                    [j \in DOMAIN nodes[i].cuts |-> NormalizeCut(nodes[i].cuts[j])]]]
        withNodes == [k \in DOMAIN d \cup {"nodes"} |->
                        IF k = "nodes" THEN normalized_nodes ELSE d[k]]
    IN  IF "inputs" \in DOMAIN withNodes THEN withNodes
        ELSE [k \in DOMAIN withNodes \cup {"inputs"} |->
                IF k = "inputs" THEN <<>> ELSE withNodes[k]]

----------------------------------------------------------------------------
(* _compute_depth_upper_bound *)

\* the slack added to the greedy depth
DepthSlack == 10

NodeNames(d) == {d.nodes[i].name : i \in DOMAIN d.nodes}

\* node_map[name]
NodeByName(d, name) ==
    d.nodes[CHOOSE i \in DOMAIN d.nodes : d.nodes[i].name = name]

\* the cut's leaves are exactly [nname]
IsSelfCut(leaves, nname) == Len(leaves) = 1 /\ leaves[1] = nname

\* the root set the depth bound starts from
BoundRoots(d) ==
    LET outs == DictGet(d, "outputs", <<>>)
    IN  IF outs # <<>> THEN outs
        ELSE IF "Nout" \in NodeNames(d) THEN <<"Nout">>
        ELSE IF d.nodes # <<>> THEN <<d.nodes[Len(d.nodes)].name>>
        ELSE <<>>

\* int(v): the exception it raises, "" when v converts
PyIntRaises(v) == IF v = NotInteger THEN "ValueError" ELSE ""

RECURSIVE DepthOf(_, _, _, _)
RECURSIVE CutsDepth(_, _, _, _, _, _, _)
RECURSIVE LeavesDepth(_, _, _, _, _, _)

\* max(depth(l) for l in leaves, default=0), leaves taken from position k on;
\* the memo is threaded through the calls in order; exc is the exception that
\* ended the call ("" when it returned). The result r of a call is bound through
\* a one-element set, so that the call is evaluated once.
LeavesDepth(d, leaves, k, acc, memo, visiting) ==
    IF k > Len(leaves) THEN [val |-> acc, memo |-> memo, exc |-> ""]
    ELSE CHOOSE res \in
            { IF r.exc # "" THEN r
              ELSE LeavesDepth(d, leaves, k + 1,
                               IF r.val > acc THEN r.val ELSE acc, r.memo, visiting)
              : r \in {DepthOf(d, leaves[k], memo, visiting)} } : TRUE

\* the loop over nd["cuts"] from position i on; best = None until a cut counts
CutsDepth(d, name, cuts, i, best, memo, visiting) ==
    IF i > Len(cuts) THEN [val |-> best, memo |-> memo, exc |-> ""]
    ELSE LET leaves_raw == DictGet(cuts[i], "leaves", <<>>)
         IN  IF IsSelfCut(leaves_raw, name)
             THEN CutsDepth(d, name, cuts, i + 1, best, memo, visiting)
             ELSE CHOOSE res \in
                    { LET cost == PyOr(DictGet(cuts[i], "depth_cost", 1), 1)
                          cut_depth == r.val + cost
                          nbest == IF best = None \/ cut_depth < best
                                   THEN cut_depth ELSE best
                      IN  IF r.exc # "" THEN r
                          ELSE IF PyIntRaises(cost) # ""
                          THEN [val |-> None, memo |-> r.memo,
                                exc |-> PyIntRaises(cost)]
                          ELSE CutsDepth(d, name, cuts, i + 1, nbest, r.memo, visiting)
                      : r \in {LeavesDepth(d, SelectSeq(leaves_raw, LAMBDA l : l # name),
                                           1, 0, memo, visiting)} } : TRUE

\* depth(name): the value and the memo after the call
DepthOf(d, name, memo, visiting) ==
    IF name \in DOMAIN memo THEN [val |-> memo[name], memo |-> memo, exc |-> ""]
    ELSE IF name \in visiting
    THEN [val |-> PyOr(Len(d.nodes), 1), memo |-> memo, exc |-> ""]
    ELSE IF name \notin NodeNames(d)
    THEN [val |-> 0, memo |-> (name :> 0) @@ memo, exc |-> ""]
    ELSE CHOOSE res \in
            { LET best == IF r.val = None THEN 0 ELSE r.val
              IN  IF r.exc # "" THEN r
                  ELSE [val |-> best, memo |-> (name :> best) @@ r.memo, exc |-> ""]
              : r \in {CutsDepth(d, name, DictGet(NodeByName(d, name), "cuts", <<>>),
                                 1, None, memo, visiting \cup {name})} } : TRUE

RECURSIVE RootDepths(_, _, _, _)
\* [depth(out) for out in outputs]: the set of values, and the exception that
\* ended the comprehension ("" when none)
RootDepths(d, outs, k, memo) ==
    IF k > Len(outs) THEN [vals |-> {}, exc |-> ""]
    ELSE CHOOSE res \in
            { IF r.exc # "" THEN [vals |-> {}, exc |-> r.exc]
              ELSE CHOOSE res2 \in
                      { [vals |-> {r.val} \cup rest.vals, exc |-> rest.exc]
                        : rest \in {RootDepths(d, outs, k + 1, r.memo)} } : TRUE
              : r \in {DepthOf(d, outs[k], memo, {})} } : TRUE

\* the exception _compute_depth_upper_bound raises on d ("" when it returns)
DepthUpperBoundRaises(d) == RootDepths(d, BoundRoots(d), 1, EmptyDict).exc

\* UbWithSlack taking the ceiling of 1.5 * base
UbWithSlackCeil(base) == Max({base + DepthSlack, (base * 3 + 1) \div 2})

\* ub_with_slack = max(base + 10, int(base * 1.5)): int() truncates
UbWithSlack(base) == Max({base + DepthSlack, (base * 3) \div 2})

ComputeDepthUpperBound(d) ==
    LET outs == BoundRoots(d)
        ub_candidates == RootDepths(d, outs, 1, EmptyDict).vals
        base == IF ub_candidates # {} THEN Max(ub_candidates)
                ELSE PyOr(Len(d.nodes), 1)
        ub_with_slack == UbWithSlack(base)
        ub == Max({ub_with_slack, PyOr(Len(d.nodes), 1)})
    IN  Max({1, ub})

----------------------------------------------------------------------------
(* solve_circuit.build_model: variables *)

\* the 1-based positions of nd's cuts that get a variable: self-cuts are skipped
CutVarPositions(nd) ==
    SelectSeq([i \in 1..Len(nd.cuts) |-> i],
              LAMBDA i : ~IsSelfCut(nd.cuts[i].leaves, nd.name))

\* cut_counter when the loop reaches the node at position k
CutCounterAt(d, k) ==
    SumOver(1..(k - 1), [i \in 1..(k - 1) |-> Len(CutVarPositions(d.nodes[i]))])

\* the "cut_index" stored for the cut at 1-based position p: enumerate()'s i
CutIndex(p) == p - 1

\* VarCutOf storing the position among the variables instead of enumerate()'s i
VarCutOfFilteredIndex(d, k) ==
    LET nd == d.nodes[k]
        pos == CutVarPositions(nd)
    IN  [j \in 1..Len(pos) |->
            LET cut_obj == nd.cuts[pos[j]]
            IN  [leaves |-> cut_obj.leaves,
                 inv_cost |-> DictGet(cut_obj, "inv_cost", 0),
                 area_cost |-> DictGet(cut_obj, "area_cost", Len(cut_obj.leaves)),
                 depth_cost |-> DictGet(cut_obj, "depth_cost", 1),
                 lex_weight |-> CutCounterAt(d, k) + j - 1,
                 cut_index |-> j - 1]]

\* var_cut[nname] for the node at position k
VarCutOf(d, k) ==
    LET nd == d.nodes[k]
        pos == CutVarPositions(nd)
    IN  [j \in 1..Len(pos) |->
            LET cut_obj == nd.cuts[pos[j]]
            IN  [leaves |-> cut_obj.leaves,
                 inv_cost |-> DictGet(cut_obj, "inv_cost", 0),
                 area_cost |-> DictGet(cut_obj, "area_cost", Len(cut_obj.leaves)),
                 depth_cost |-> DictGet(cut_obj, "depth_cost", 1),
                 lex_weight |-> CutCounterAt(d, k) + j - 1,
                 cut_index |-> CutIndex(pos[j])]]

VarCut(d) ==
    [n \in NodeNames(d) |->
        VarCutOf(d, CHOOSE k \in DOMAIN d.nodes : d.nodes[k].name = n)]

\* the cut variables: (node, 1-based position in var_cut[node])
CutVarIds(d) ==
    UNION {{<<d.nodes[k].name, j>> : j \in 1..Len(CutVarPositions(d.nodes[k]))} :
              k \in DOMAIN d.nodes}

----------------------------------------------------------------------------
(* solve_circuit.build_model: the constraints added to the model *)

\* (A) exactly 1 cut if node used, 0 otherwise: per node, the variables summed
\* (sum == used), or no variable at all (used == 0)
ExactlyOne(d) ==
    [n \in NodeNames(d) |-> {id \in CutVarIds(d) : id[1] = n}]

\* Implications with the loop over the leaves left out
ImplicationsNone(d) == {}

\* (B) cut -> leaves used (for internal leaves): the implications
\* cut variable => used[leaf]; a leaf outside the catalog implies the constant 1
Implications(d) ==
    {<<id, leaf>> \in CutVarIds(d) \X NodeNames(d) :
        leaf \in Range(VarCut(d)[id[1]][id[2]].leaves)}

\* step = ci.get("depth_cost", 1) or 1
Step(ci) == PyOr(DictGet(ci, "depth_cost", 1), 1)

\* LevelLinks with the loop over the cuts' leaves left out
LevelLinksNone(d) == {}

\* level[node] >= level[leaf] + step - big_m * (1 - cut), per cut and catalog leaf
LevelLinks(d) ==
    {[node |-> p[1][1], cut |-> p[1], leaf |-> p[2],
      step |-> Step(VarCut(d)[p[1][1]][p[1][2]])] : p \in Implications(d)}

\* LevelFloors with the constraint level >= used left out
LevelFloorsNone(d) == {}

\* the nodes with level >= used: every node not named in inputs
LevelFloors(d) == NodeNames(d) \ Range(DictGet(d, "inputs", <<>>))

\* the nodes with level == 0: the inputs that are catalog nodes
LevelPinned(d) == NodeNames(d) \cap Range(DictGet(d, "inputs", <<>>))

\* ForcedRoots whose fallback takes the last node without looking for Nout
ForcedRootsLastOnly(d) ==
    LET outputs == DictGet(d, "outputs", <<>>)
    IN  IF outputs # <<>> THEN Range(outputs) \cap NodeNames(d)
        ELSE IF d.nodes # <<>> THEN {d.nodes[Len(d.nodes)].name}
        ELSE {}

\* force outputs as roots if present, else Nout, else the last node
ForcedRoots(d) ==
    LET outputs == DictGet(d, "outputs", <<>>)
    IN  IF outputs # <<>> THEN Range(outputs) \cap NodeNames(d)
        ELSE IF "Nout" \in NodeNames(d) THEN {"Nout"}
        ELSE IF d.nodes # <<>> THEN {d.nodes[Len(d.nodes)].name}
        ELSE {}

\* build_model(depth_bound=db, fix_depth=fd): the model; None = not given
BuildModel(d, db, fd) ==
    LET include_depth == db # None
    IN  [node_names |-> NodeNames(d),
         var_cut |-> VarCut(d),
         cut_vars |-> CutVarIds(d),
         exactly_one |-> ExactlyOne(d),
         implications |-> Implications(d),
         roots |-> ForcedRoots(d),
         include_depth |-> include_depth,
         max_depth_bound |->
            IF include_depth THEN Max({1, PyOr(PyOr(db, Len(d.nodes)), 1)}) ELSE 0,
         level_pinned |-> IF include_depth THEN LevelPinned(d) ELSE {},
         level_floors |-> IF include_depth THEN LevelFloors(d) ELSE {},
         level_links |-> IF include_depth THEN LevelLinks(d) ELSE {},
         fix_depth |-> IF include_depth THEN fd ELSE None]

----------------------------------------------------------------------------
(* The solutions of a built model m: assignments s of used, cut, level, D *)

\* sum(ci["var"] for ci in cuts_for_node)
CutSum(m, s, n) == SumOver(m.exactly_one[n], s.cut)

\* ConstraintA with sum <= used in place of sum == used
ConstraintAAtMost(m, s) ==
    \A n \in m.node_names :
        IF m.exactly_one[n] # {} THEN SumOver(m.exactly_one[n], s.cut) <= s.used[n]
        ELSE s.used[n] = 0

ConstraintA(m, s) ==
    \A n \in m.node_names :
        IF m.exactly_one[n] # {} THEN CutSum(m, s, n) = s.used[n]
        ELSE s.used[n] = 0

ConstraintB(m, s) ==
    \A p \in m.implications : s.cut[p[1]] = 1 => s.used[p[2]] = 1

ConstraintRoots(m, s) ==
    \A out \in m.roots : s.used[out] = 1

\* node_level >= level_vars[leaf] + step - big_m * (1 - cvar)
LevelLink(node_level, leaf_level, step, big_m, cvar) ==
    node_level >= leaf_level + step - big_m * (1 - cvar)

\* inputs pinned to level 0, levels linked to usage and to the leaves' levels
ConstraintLevels(m, used, cut, level) ==
    LET big_m == m.max_depth_bound
    IN  /\ \A inp \in m.level_pinned : level[inp] = 0
        /\ \A n \in m.node_names : level[n] <= big_m * used[n]
        /\ \A n \in m.level_floors : level[n] >= used[n]
        /\ \A c \in m.level_links :
              LevelLink(level[c.node], level[c.leaf], c.step, big_m, cut[c.cut])

\* D >= every level, and D == fix_depth when given
ConstraintD(m, level, D) ==
    /\ \A n \in m.node_names : D >= level[n]
    /\ m.fix_depth # None => D = m.fix_depth

BoolAssignments(m) ==
    {[used |-> u, cut |-> c] :
        u \in [m.node_names -> {0, 1}], c \in [m.cut_vars -> {0, 1}]}

\* the assignments of used and cut variables satisfying (A), (B) and the roots
BoolSolutions(m) ==
    {s \in BoolAssignments(m) :
        ConstraintA(m, s) /\ ConstraintB(m, s) /\ ConstraintRoots(m, s)}

\* the level assignments completing a boolean solution b, enumerated once
FeasibleLevels(m, b) ==
    {l : l \in {f \in [m.node_names -> 0..m.max_depth_bound] :
                    ConstraintLevels(m, b.used, b.cut, f)}}

\* every assignment satisfying the model's constraints
Solutions(m) ==
    IF ~m.include_depth THEN BoolSolutions(m)
    ELSE UNION {UNION {{[used |-> b.used, cut |-> b.cut, level |-> l, D |-> dd] :
                          dd \in {x \in 0..m.max_depth_bound : ConstraintD(m, l, x)}} :
                      l \in FeasibleLevels(m, b)} : b \in BoolSolutions(m)}

\* the values of D that some level assignment of b allows
FeasibleD(m, b) ==
    LET levels == FeasibleLevels(m, b)
    IN  {x \in 0..m.max_depth_bound : \E l \in levels : ConstraintD(m, l, x)}

\* the solutions as the driver reads them (solver.Value of used, cut and D):
\* Solutions(m) without the level values
SolverValues(m) ==
    IF ~m.include_depth THEN BoolSolutions(m)
    ELSE UNION {{[used |-> b.used, cut |-> b.cut, D |-> dd] : dd \in FeasibleD(m, b)} :
                  b \in BoolSolutions(m)}

----------------------------------------------------------------------------
(* solve_circuit.build_model.apply_objective *)

lambda_inv == 10
lambda_area == 1
alpha_depth == 100
beta_area == 10
gamma_inv == 1

\* sum of (wi * inv_cost + wa * area_cost) * ci["var"] over every cut variable
CutTerms(m, s, wi, wa) ==
    SumOver(m.cut_vars,
            [id \in m.cut_vars |->
                (wi * m.var_cut[id[1]][id[2]].inv_cost
                 + wa * m.var_cut[id[1]][id[2]].area_cost) * s.cut[id]])

\* Sum(inv_terms)
TotalInv(m, s) == CutTerms(m, s, 1, 0)

\* Sum(area_terms)
TotalArea(m, s) == CutTerms(m, s, 0, 1)

\* Sum(original_terms)
TotalOriginal(m, s) == CutTerms(m, s, lambda_inv, lambda_area)

\* ApplyObjective without the final else: an unknown mode sets no objective
ApplyObjectiveNoElse(m, mode) ==
    IF mode \in {"depth", "overall"}
    THEN (IF m.include_depth THEN "ok" ELSE "RuntimeError")
    ELSE "ok"

\* what apply_objective(mode) does on model m: sets an objective or raises
ApplyObjective(m, mode) ==
    IF mode \in {"og", "original", "inv", "area", "overall_tiebreak",
                 "depth_tiebreak_area"} THEN "ok"
    ELSE IF mode \in {"depth", "overall"}
    THEN (IF m.include_depth THEN "ok" ELSE "RuntimeError")
    ELSE "ValueError"

\* ObjectiveValue with the term lists swapped: area sums inv_terms and inv
\* sums area_terms
ObjectiveValueSwapped(m, mode, s) ==
    CASE mode \in {"og", "original"} -> TotalOriginal(m, s)
      [] mode = "inv" -> TotalArea(m, s)
      [] mode = "area" -> TotalInv(m, s)
      [] mode = "depth" -> s.D
      [] mode = "overall" ->
            alpha_depth * s.D + beta_area * TotalArea(m, s) + gamma_inv * TotalInv(m, s)
      [] mode = "overall_tiebreak" ->
            beta_area * TotalArea(m, s) + gamma_inv * TotalInv(m, s)
      [] mode = "depth_tiebreak_area" -> TotalArea(m, s)

\* the minimised expression under assignment s
ObjectiveValue(m, mode, s) ==
    CASE mode \in {"og", "original"} -> TotalOriginal(m, s)
      [] mode = "inv" -> TotalInv(m, s)
      [] mode = "area" -> TotalArea(m, s)
      [] mode = "depth" -> s.D
      [] mode = "overall" ->
            alpha_depth * s.D + beta_area * TotalArea(m, s) + gamma_inv * TotalInv(m, s)
      [] mode = "overall_tiebreak" ->
            beta_area * TotalArea(m, s) + gamma_inv * TotalInv(m, s)
      [] mode = "depth_tiebreak_area" -> TotalArea(m, s)

----------------------------------------------------------------------------
(* solve_circuit.solve_model: the solver's contract *)

OkStatuses == {"OPTIMAL", "FEASIBLE"}

\* the solver may stop and report OPTIMAL once the incumbent is within the
\* absolute gap, or within the relative gap (in percent) of max(1, |obj|)
WithinGap(obj, best, absolute_gap, relative_gap_pct) ==
    \/ obj - best <= absolute_gap
    \/ 100 * (obj - best) <= relative_gap_pct * Max({1, obj})

\* solver.Solve(model): every (status, assignment) the call may end with.
\* INFEASIBLE needs an empty solution set; OPTIMAL an incumbent within the gap
\* limits of the optimum; FEASIBLE (the time limit, or stop_after_first) any
\* solution; UNKNOWN is the time limit passing with no incumbent.
SolveModel(m, mode, absolute_gap, relative_gap_pct, stop_after_first) ==
    LET sols == SolverValues(m)
        best == Min({ObjectiveValue(m, mode, s) : s \in sols})
    IN  IF sols = {} THEN {[status |-> "INFEASIBLE"], [status |-> "UNKNOWN"]}
        ELSE {[status |-> "UNKNOWN"]}
             \cup {[status |-> "FEASIBLE", sol |-> s] : s \in sols}
             \cup {[status |-> "OPTIMAL", sol |-> s] :
                      s \in {t \in sols :
                                WithinGap(ObjectiveValue(m, mode, t), best,
                                          absolute_gap, relative_gap_pct)}}

----------------------------------------------------------------------------
(* _extract_chosen_cuts *)

\* the first chosen cut variable of node n
FirstChosen(m, s, n) ==
    Min({j \in 1..Len(m.var_cut[n]) : s.cut[<<n, j>>] = 1})

ExtractChosenCuts(m, s) ==
    [n \in {x \in m.node_names :
               /\ s.used[x] = 1
               /\ \E j \in 1..Len(m.var_cut[x]) : s.cut[<<x, j>>] = 1}
        |-> m.var_cut[n][FirstChosen(m, s, n)].cut_index]

----------------------------------------------------------------------------
(* solve_circuit *)

NoModel == [include_depth |-> FALSE]

NoFile == [written |-> FALSE, chosen_cuts |-> EmptyDict]

NoReturn == [status |-> "", objective_value |-> None]

\* the search of the depth bound, before it starts: the frames of the calls of
\* depth() in progress, memo, visiting, the names expanded so far, the next
\* root to evaluate, the root depths found, and the call that returned last
DfsIdle ==
    [stack |-> <<>>, memo |-> EmptyDict, visiting |-> {}, expanded |-> <<>>,
     root |-> 1, vals |-> {}, last |-> [kind |-> "none", name |-> "", val |-> 0],
     status |-> "idle", ub |-> None]

Init ==
    /\ data \in Catalogs
    /\ objective_mode \in ObjectiveModes
    /\ pc = "load"
    /\ model = NoModel
    /\ depth_bound = None
    /\ status_a = ""
    /\ best_depth = None
    /\ phase_a_cuts = EmptyDict
    /\ status_b = ""
    /\ final_status = ""
    /\ final_objective = None
    /\ chosen_cuts = EmptyDict
    /\ out_file = NoFile
    /\ ret = NoReturn
    /\ exc = ""
    /\ exit_code = None
    /\ dfs = DfsIdle

\* Load with every objective_mode sent to the single-model branch
LoadSingleOnly ==
    /\ pc = "load"
    /\ data' = NormalizeCutsData(data)
    /\ pc' = "build_single"
    /\ UNCHANGED <<objective_mode, model, depth_bound, status_a, best_depth,
                   phase_a_cuts, status_b, final_status, final_objective,
                   chosen_cuts, out_file, ret,
                   exc, exit_code, dfs>>

\* _load_cuts_data and _normalize_cuts_data, then the branch on objective_mode
Load ==
    /\ pc = "load"
    /\ data' = NormalizeCutsData(data)
    /\ pc' = IF objective_mode \in {"depth", "overall"} THEN "build_a" ELSE "build_single"
    /\ UNCHANGED <<objective_mode, model, depth_bound, status_a, best_depth,
                   phase_a_cuts, status_b, final_status, final_objective,
                   chosen_cuts, out_file, ret,
                   exc, exit_code, dfs>>

\* phase["apply_objective"](mode): control goes on to the solve at next_pc, or
\* the exception leaves solve_circuit
Applied(m, mode, next_pc) ==
    LET r == ApplyObjective(m, mode)
    IN  /\ pc' = IF r = "ok" THEN next_pc ELSE "raised"
        /\ exc' = IF r = "ok" THEN exc ELSE r

\* depth_bound = max(_compute_depth_upper_bound(data), len(node_dicts) or 1);
\* phase_a = build_model(depth_bound=depth_bound); phase_a["apply_objective"]("depth")
BuildPhaseA ==
    /\ pc = "build_a"
    /\ IF DepthUpperBoundRaises(data) # ""
       THEN /\ exc' = DepthUpperBoundRaises(data)
            /\ pc' = "raised"
            /\ UNCHANGED <<depth_bound, model>>
       ELSE LET ub == Max({ComputeDepthUpperBound(data), PyOr(Len(data.nodes), 1)})
            IN  /\ depth_bound' = ub
                /\ model' = BuildModel(data, ub, None)
                /\ Applied(BuildModel(data, ub, None), "depth", "solve_a")
    /\ UNCHANGED <<data, objective_mode, status_a, best_depth, phase_a_cuts,
                   status_b, final_status, final_objective, chosen_cuts,
                   out_file, ret, exit_code, dfs>>

\* Phase A's solve: minimise D, absolute gap 1, stop after the first solution
PhaseAOutcomes == SolveModel(model, "depth", 1, 0, TRUE)

\* PhaseAFail without the early return: the driver goes on to Phase B
PhaseAFailContinues ==
    /\ pc = "solve_a"
    /\ \E o \in PhaseAOutcomes :
          /\ o.status \notin OkStatuses
          /\ status_a' = o.status
          /\ final_status' = o.status
    /\ pc' = "build_b"
    /\ UNCHANGED <<data, objective_mode, model, depth_bound, best_depth,
                   phase_a_cuts, status_b, final_objective, chosen_cuts,
                   out_file, ret, exc, exit_code, dfs>>

\* Phase A ends with no solution: return its status
PhaseAFail ==
    /\ pc = "solve_a"
    /\ \E o \in PhaseAOutcomes :
          /\ o.status \notin OkStatuses
          /\ status_a' = o.status
          /\ ret' = [status |-> o.status, objective_value |-> None]
    /\ pc' = "returned"
    /\ UNCHANGED <<data, objective_mode, model, depth_bound, best_depth,
                   phase_a_cuts, status_b, final_status, final_objective,
                   chosen_cuts, out_file,
                   exc, exit_code, dfs>>

\* Phase A ends with a solution: keep its depth and its cuts
PhaseAOk ==
    /\ pc = "solve_a"
    /\ \E o \in PhaseAOutcomes :
          /\ o.status \in OkStatuses
          /\ status_a' = o.status
          /\ best_depth' = o.sol.D
          /\ phase_a_cuts' = ExtractChosenCuts(model, o.sol)
          /\ final_status' = o.status
          /\ final_objective' = o.sol.D
    /\ pc' = "build_b"
    /\ UNCHANGED <<data, objective_mode, model, depth_bound, status_b,
                   chosen_cuts, out_file, ret,
                   exc, exit_code, dfs>>

TieMode == IF objective_mode = "depth" THEN "depth_tiebreak_area" ELSE "overall_tiebreak"

\* BuildPhaseB fixing the depth one below Phase A's
BuildPhaseBTighter ==
    /\ pc = "build_b"
    /\ model' = BuildModel(data, depth_bound, best_depth - 1)
    /\ Applied(BuildModel(data, depth_bound, best_depth - 1), TieMode, "solve_b")
    /\ UNCHANGED <<data, objective_mode, depth_bound, status_a, best_depth,
                   phase_a_cuts, status_b, final_status, final_objective,
                   chosen_cuts, out_file, ret, exit_code, dfs>>

\* phase_b = build_model(depth_bound=depth_bound, fix_depth=best_depth);
\* phase_b["apply_objective"](tie_mode)
BuildPhaseB ==
    /\ pc = "build_b"
    /\ model' = BuildModel(data, depth_bound, best_depth)
    /\ Applied(BuildModel(data, depth_bound, best_depth), TieMode, "solve_b")
    /\ UNCHANGED <<data, objective_mode, depth_bound, status_a, best_depth,
                   phase_a_cuts, status_b, final_status, final_objective,
                   chosen_cuts, out_file, ret, exit_code, dfs>>

\* Phase B's solve: minimise the tie-breaker, default gaps
PhaseBOutcomes == SolveModel(model, TieMode, 0, 0, FALSE)

\* Phase B ends with a solution: its cuts and status are the result
PhaseBOk ==
    /\ pc = "solve_b"
    /\ \E o \in PhaseBOutcomes :
          /\ o.status \in OkStatuses
          /\ status_b' = o.status
          /\ final_status' = o.status
          /\ chosen_cuts' = ExtractChosenCuts(model, o.sol)
    /\ final_objective' = best_depth
    /\ pc' = "write"
    /\ UNCHANGED <<data, objective_mode, model, depth_bound, status_a,
                   best_depth, phase_a_cuts, out_file, ret,
                   exc, exit_code, dfs>>

\* PhaseBFallback without the assignment chosen_cuts = phase_a_cuts
PhaseBFallbackNoCuts ==
    /\ pc = "solve_b"
    /\ \E o \in PhaseBOutcomes :
          /\ o.status \notin OkStatuses
          /\ status_b' = o.status
    /\ pc' = "write"
    /\ UNCHANGED <<data, objective_mode, model, depth_bound, status_a,
                   best_depth, phase_a_cuts, final_status, final_objective,
                   chosen_cuts, out_file, ret,
                   exc, exit_code, dfs>>

\* Phase B ends with no solution: fall back to Phase A's cuts
PhaseBFallback ==
    /\ pc = "solve_b"
    /\ \E o \in PhaseBOutcomes :
          /\ o.status \notin OkStatuses
          /\ status_b' = o.status
    /\ chosen_cuts' = phase_a_cuts
    /\ pc' = "write"
    /\ UNCHANGED <<data, objective_mode, model, depth_bound, status_a,
                   best_depth, phase_a_cuts, final_status, final_objective,
                   out_file, ret,
                   exc, exit_code, dfs>>

\* single = build_model(depth_bound=None); single["apply_objective"](objective_mode)
BuildSingle ==
    /\ pc = "build_single"
    /\ model' = BuildModel(data, None, None)
    /\ Applied(BuildModel(data, None, None), objective_mode, "solve_single")
    /\ UNCHANGED <<data, objective_mode, depth_bound, status_a, best_depth,
                   phase_a_cuts, status_b, final_status, final_objective,
                   chosen_cuts, out_file, ret, exit_code, dfs>>

\* relative_gap=0.05, in percent
RelativeGapPct == 5

\* SingleOutcomes with a relative gap of 0.5
SingleOutcomesWideGap == SolveModel(model, objective_mode, 0, 50, FALSE)

\* og / inv / area: one solve, relative gap 0.05
SingleOutcomes == SolveModel(model, objective_mode, 0, RelativeGapPct, FALSE)

\* SingleFail without the early return: the file is written all the same
SingleFailWrites ==
    /\ pc = "solve_single"
    /\ \E o \in SingleOutcomes :
          /\ o.status \notin OkStatuses
          /\ final_status' = o.status
    /\ pc' = "write"
    /\ UNCHANGED <<data, objective_mode, model, depth_bound, status_a,
                   best_depth, phase_a_cuts, status_b, final_objective,
                   chosen_cuts, out_file, ret,
                   exc, exit_code, dfs>>

\* the single solve ends with no solution: return its status, write nothing
SingleFail ==
    /\ pc = "solve_single"
    /\ \E o \in SingleOutcomes :
          /\ o.status \notin OkStatuses
          /\ ret' = [status |-> o.status, objective_value |-> None]
    /\ pc' = "returned"
    /\ UNCHANGED <<data, objective_mode, model, depth_bound, status_a,
                   best_depth, phase_a_cuts, status_b, final_status,
                   final_objective, chosen_cuts, out_file,
                   exc, exit_code, dfs>>

SingleOk ==
    /\ pc = "solve_single"
    /\ \E o \in SingleOutcomes :
          /\ o.status \in OkStatuses
          /\ final_status' = o.status
          /\ final_objective' = ObjectiveValue(model, objective_mode, o.sol)
          /\ chosen_cuts' = ExtractChosenCuts(model, o.sol)
    /\ pc' = "write"
    /\ UNCHANGED <<data, objective_mode, model, depth_bound, status_a,
                   best_depth, phase_a_cuts, status_b, out_file, ret,
                   exc, exit_code, dfs>>

\* json.dump({"chosen_cuts": chosen_cuts}) and the return
WriteChosenCuts ==
    /\ pc = "write"
    /\ out_file' = [written |-> TRUE, chosen_cuts |-> chosen_cuts]
    /\ ret' = [status |-> final_status, objective_value |-> final_objective]
    /\ pc' = "returned"
    /\ UNCHANGED <<data, objective_mode, model, depth_bound, status_a,
                   best_depth, phase_a_cuts, status_b, final_status,
                   final_objective, chosen_cuts,
                   exc, exit_code, dfs>>

\* __main__: the script ends when solve_circuit returns, and with a traceback
\* when it raised; argparse admits only the --objective choices
MainExit ==
    /\ pc \in {"returned", "raised"}
    /\ objective_mode \in CliChoices
    /\ exit_code' = IF pc = "raised" THEN 1 ELSE 0
    /\ pc' = "exited"
    /\ UNCHANGED <<data, objective_mode, model, depth_bound, status_a,
                   best_depth, phase_a_cuts, status_b, final_status,
                   final_objective, chosen_cuts, out_file, ret, exc, dfs>>

Next ==
    \/ Load
    \/ BuildPhaseA
    \/ PhaseAFail
    \/ PhaseAOk
    \/ BuildPhaseB
    \/ PhaseBOk
    \/ PhaseBFallback
    \/ BuildSingle
    \/ SingleFail
    \/ SingleOk
    \/ WriteChosenCuts
    \/ MainExit

Spec == Init /\ [][Next]_vars

----------------------------------------------------------------------------
(* _compute_depth_upper_bound followed call by call: the calls of depth() in
   progress are the frames of dfs.stack, the innermost last.  A frame holds
   the name, the position i of the cut the loop is at, the position k of the
   next leaf of that cut, the largest leaf depth found for the cut (acc), and
   best. *)

\* the frame of the innermost call
Top == dfs.stack[Len(dfs.stack)]

\* nd.get("cuts", []) of the innermost call's node
TopCuts == DictGet(NodeByName(data, Top.name), "cuts", <<>>)

\* leaves_raw of the cut the innermost call is at
TopLeavesRaw == DictGet(TopCuts[Top.i], "leaves", <<>>)

\* leaves = [l for l in leaves_raw if l != name]
TopLeaves == SelectSeq(TopLeavesRaw, LAMBDA l : l # Top.name)

\* the loop of the innermost call is at a cut that is not a self-cut
AtCut ==
    /\ dfs.stack # <<>>
    /\ Top.i <= Len(TopCuts)
    /\ ~IsSelfCut(TopLeavesRaw, Top.name)

\* the search is about to call depth(): on the next root, or on the next leaf
HasCall ==
    /\ dfs.status = "run"
    /\ IF dfs.stack = <<>> THEN dfs.root <= Len(BoundRoots(data))
       ELSE AtCut /\ Top.k <= Len(TopLeaves)

\* the name depth() is about to be called on
Callee ==
    IF dfs.stack = <<>> THEN BoundRoots(data)[dfs.root] ELSE TopLeaves[Top.k]

\* the search state st after a call of depth(name) returned val to its caller:
\* the list of root depths, or the max() over the leaves of the caller's cut
Deliver(st, kind, name, val) ==
    LET n == Len(st.stack)
        got == [st EXCEPT !.last = [kind |-> kind, name |-> name, val |-> val]]
    IN  IF n = 0
        THEN [got EXCEPT !.vals = @ \cup {val}, !.root = @ + 1]
        ELSE [got EXCEPT !.stack[n].acc = IF val > @ THEN val ELSE @,
                         !.stack[n].k = @ + 1]

\* what solve_circuit's other variables are while the search runs
DfsFrame ==
    UNCHANGED <<data, objective_mode, pc, model, depth_bound, status_a,
                best_depth, phase_a_cuts, status_b, final_status,
                final_objective, chosen_cuts, out_file, ret, exc, exit_code>>

\* if name in memo: return memo[name]
DfsMemoHit ==
    /\ HasCall
    /\ Callee \in DOMAIN dfs.memo
    /\ dfs' = Deliver(dfs, "memo", Callee, dfs.memo[Callee])
    /\ DfsFrame

\* if name in visiting: return len(nodes) or 1
DfsCycle ==
    /\ HasCall
    /\ Callee \notin DOMAIN dfs.memo
    /\ Callee \in dfs.visiting
    /\ dfs' = Deliver(dfs, "cycle", Callee, PyOr(Len(data.nodes), 1))
    /\ DfsFrame

\* if nd is None: memo[name] = 0; return 0
DfsNotInCatalog ==
    /\ HasCall
    /\ Callee \notin DOMAIN dfs.memo
    /\ Callee \notin dfs.visiting
    /\ Callee \notin NodeNames(data)
    /\ dfs' = Deliver([dfs EXCEPT !.memo = (Callee :> 0) @@ @], "input", Callee, 0)
    /\ DfsFrame

\* visiting.add(name); best = None: the call goes on into the loop over the cuts
DfsExpand ==
    /\ HasCall
    /\ Callee \notin DOMAIN dfs.memo
    /\ Callee \notin dfs.visiting
    /\ Callee \in NodeNames(data)
    /\ dfs' = [dfs EXCEPT
                 !.stack = Append(@, [name |-> Callee, i |-> 1, k |-> 1,
                                      acc |-> 0, best |-> None]),
                 !.visiting = @ \cup {Callee},
                 !.expanded = Append(@, Callee)]
    /\ DfsFrame

\* a self-cut: continue
DfsSkipSelfCut ==
    /\ dfs.status = "run"
    /\ dfs.stack # <<>>
    /\ Top.i <= Len(TopCuts)
    /\ IsSelfCut(TopLeavesRaw, Top.name)
    /\ dfs' = [dfs EXCEPT !.stack[Len(dfs.stack)].i = @ + 1]
    /\ DfsFrame

\* cut.get("depth_cost", 1) or 1, of the cut the innermost call is at
TopCost == PyOr(DictGet(TopCuts[Top.i], "depth_cost", 1), 1)

\* the leaves of the cut are done: cut_depth = leaf_depth + int(depth_cost);
\* best = min(best, cut_depth); on to the next cut
DfsCloseCut ==
    /\ dfs.status = "run"
    /\ AtCut
    /\ Top.k > Len(TopLeaves)
    /\ PyIntRaises(TopCost) = ""
    /\ LET cut_depth == Top.acc + TopCost
           best == IF Top.best = None \/ cut_depth < Top.best
                   THEN cut_depth ELSE Top.best
       IN  dfs' = [dfs EXCEPT !.stack[Len(dfs.stack)] =
                      [@ EXCEPT !.i = @ + 1, !.k = 1, !.acc = 0, !.best = best]]
    /\ DfsFrame

\* int() rejects the cut's depth_cost: the exception ends the search
DfsRaise ==
    /\ dfs.status = "run"
    /\ AtCut
    /\ Top.k > Len(TopLeaves)
    /\ PyIntRaises(TopCost) # ""
    /\ dfs' = [dfs EXCEPT !.status = "raised"]
    /\ DfsFrame

\* DfsReturn without memo[name] = best
DfsReturnNoMemo ==
    /\ dfs.status = "run"
    /\ dfs.stack # <<>>
    /\ Top.i > Len(TopCuts)
    /\ LET best == IF Top.best = None THEN 0 ELSE Top.best
           popped == [dfs EXCEPT
                        !.stack = SubSeq(@, 1, Len(@) - 1),
                        !.visiting = @ \ {Top.name}]
       IN  dfs' = Deliver(popped, "expanded", Top.name, best)
    /\ DfsFrame

\* the loop over the cuts is over: visiting.remove(name); memo[name] = best;
\* return best
DfsReturn ==
    /\ dfs.status = "run"
    /\ dfs.stack # <<>>
    /\ Top.i > Len(TopCuts)
    /\ LET best == IF Top.best = None THEN 0 ELSE Top.best
           popped == [dfs EXCEPT
                        !.stack = SubSeq(@, 1, Len(@) - 1),
                        !.visiting = @ \ {Top.name},
                        !.memo = (Top.name :> best) @@ @]
       IN  dfs' = Deliver(popped, "expanded", Top.name, best)
    /\ DfsFrame

\* every root is evaluated: base, the slack, and the returned bound
DfsFinish ==
    /\ dfs.status = "run"
    /\ dfs.stack = <<>>
    /\ dfs.root > Len(BoundRoots(data))
    /\ LET base == IF dfs.vals # {} THEN Max(dfs.vals) ELSE PyOr(Len(data.nodes), 1)
           ub_with_slack == UbWithSlack(base)
           ub == Max({ub_with_slack, PyOr(Len(data.nodes), 1)})
       IN  dfs' = [dfs EXCEPT !.status = "done", !.ub = Max({1, ub})]
    /\ DfsFrame

\* _compute_depth_upper_bound(data) is called on a normalized catalog
DepthInit ==
    /\ data \in {NormalizeCutsData(c) : c \in Catalogs}
    /\ objective_mode = "depth"
    /\ pc = "build_a"
    /\ model = NoModel
    /\ depth_bound = None
    /\ status_a = ""
    /\ best_depth = None
    /\ phase_a_cuts = EmptyDict
    /\ status_b = ""
    /\ final_status = ""
    /\ final_objective = None
    /\ chosen_cuts = EmptyDict
    /\ out_file = NoFile
    /\ ret = NoReturn
    /\ exc = ""
    /\ exit_code = None
    /\ dfs = [DfsIdle EXCEPT !.status = "run"]

DepthNext ==
    \/ DfsMemoHit
    \/ DfsCycle
    \/ DfsNotInCatalog
    \/ DfsExpand
    \/ DfsSkipSelfCut
    \/ DfsCloseCut
    \/ DfsRaise
    \/ DfsReturn
    \/ DfsFinish

\* the search is sequential code: it takes its next step whenever it has one
DepthSpec == DepthInit /\ [][DepthNext]_vars /\ WF_vars(DepthNext)

----------------------------------------------------------------------------
(* Reading an emitted cover *)

DepthModes == {"depth", "overall"}

\* the cut of node n that the mapping cc selects
SelectedCut(d, cc, n) == NodeByName(d, n).cuts[cc[n] + 1]

\* the leaves of n's selected cut that name catalog nodes
CatalogLeaves(d, cc, n) == Range(SelectedCut(d, cc, n).leaves) \cap NodeNames(d)

RECURSIVE PathLen(_, _, _, _)
\* the longest path ending in n, summing depth_cost over the selected cuts,
\* the cut of the bottom node included
PathLen(d, cc, n, fuel) ==
    LET below == CatalogLeaves(d, cc, n) \cap DOMAIN cc
    IN  DictGet(SelectedCut(d, cc, n), "depth_cost", 1)
        + (IF below = {} \/ fuel = 0 THEN 0
           ELSE Max({PathLen(d, cc, l, fuel - 1) : l \in below}))

\* the longest path of the cover cc
CoverDepth(d, cc) ==
    IF DOMAIN cc = {} THEN 0
    ELSE Max({PathLen(d, cc, n, Len(d.nodes)) : n \in DOMAIN cc})

CoverArea(d, cc) ==
    SumOver(DOMAIN cc, [n \in DOMAIN cc |->
                DictGet(SelectedCut(d, cc, n), "area_cost",
                        Len(SelectedCut(d, cc, n).leaves))])

CoverInv(d, cc) ==
    SumOver(DOMAIN cc, [n \in DOMAIN cc |-> DictGet(SelectedCut(d, cc, n), "inv_cost", 0)])

Emitted == out_file.written

----------------------------------------------------------------------------
(* C1: whenever chosen_cuts is emitted, it is closed under leaves: every leaf
   of a node's selected cut that names a catalog node is itself a key of
   chosen_cuts, in every objective mode. *)
C1_LeafClosed ==
    Emitted =>
        \A n \in DOMAIN out_file.chosen_cuts :
            CatalogLeaves(data, out_file.chosen_cuts, n) \subseteq DOMAIN out_file.chosen_cuts

\* a cover is emitted in which a selected cut has another catalog node as leaf
C1_Witness ==
    /\ Emitted
    /\ \E n \in DOMAIN out_file.chosen_cuts :
          \E l \in CatalogLeaves(data, out_file.chosen_cuts, n) :
              l # n /\ l \in DOMAIN out_file.chosen_cuts

(* C2: for every node n of the emitted chosen_cuts the stored value i is a
   0-based position of n's original cuts sequence, 0 <= i < len(cuts(n)), and
   cuts[i] is not a self-cut: skipping self-cuts does not shift the index. *)
C2_IndexIsOriginalPosition ==
    Emitted =>
        \A n \in DOMAIN out_file.chosen_cuts :
            LET i == out_file.chosen_cuts[n]
                cuts == NodeByName(data, n).cuts
            IN  /\ 0 <= i
                /\ i < Len(cuts)
                /\ ~IsSelfCut(cuts[i + 1].leaves, n)

\* a cover is emitted that selects a cut standing after a skipped self-cut
C2_Witness ==
    /\ Emitted
    /\ \E n \in DOMAIN out_file.chosen_cuts :
          /\ out_file.chosen_cuts[n] = 1
          /\ IsSelfCut(NodeByName(data, n).cuts[1].leaves, n)

(* C3: whenever chosen_cuts is emitted, every declared output that names a
   catalog node is a key; with no outputs declared, Nout is a key when it is a
   catalog node, and otherwise the last catalog node is. *)
C3_RootsPresent ==
    Emitted =>
        LET keys == DOMAIN out_file.chosen_cuts
        IN  IF data.outputs # <<>>
            THEN Range(data.outputs) \cap NodeNames(data) \subseteq keys
            ELSE IF "Nout" \in NodeNames(data) THEN "Nout" \in keys
            ELSE data.nodes # <<>> => data.nodes[Len(data.nodes)].name \in keys

\* no outputs declared, Nout is in the catalog but not last, and a cover
\* holding Nout is emitted
C3_Witness ==
    /\ Emitted
    /\ data.outputs = <<>>
    /\ "Nout" \in NodeNames(data)
    /\ data.nodes[Len(data.nodes)].name # "Nout"
    /\ "Nout" \in DOMAIN out_file.chosen_cuts

\* the model's solver is about to run
Solving == pc \in {"solve_a", "solve_b", "solve_single"}

\* the cut variables of node n that assignment s sets to 1
ChosenVars(m, s, n) == {id \in m.cut_vars : id[1] = n /\ s.cut[id] = 1}

(* C4: in every solution of the built model a node is used iff exactly one of
   its cut variables is chosen (an unused node has none), a node whose cuts
   are all self-cuts is never used, and the extracted chosen_cuts has exactly
   one entry per used node and none for an unused node.  Checked of every
   assignment satisfying (A), (B) and the root constraints, of which the
   solutions of a depth model are a part. *)
C4_UsedIffOneCut ==
    Solving =>
        \A s \in BoolSolutions(model) :
            /\ \A n \in model.node_names :
                  /\ s.used[n] = 1 <=> Cardinality(ChosenVars(model, s, n)) = 1
                  /\ s.used[n] = 0 => ChosenVars(model, s, n) = {}
                  /\ (\A i \in DOMAIN NodeByName(data, n).cuts :
                         IsSelfCut(NodeByName(data, n).cuts[i].leaves, n))
                     => s.used[n] = 0
            /\ DOMAIN ExtractChosenCuts(model, s) =
                  {n \in model.node_names : s.used[n] = 1}

\* a model with a solution using a node that has two cut variables, beside a
\* node that carries only self-cuts
C4_Witness ==
    /\ Solving
    /\ \E s \in BoolSolutions(model) :
          \E n \in model.node_names :
              s.used[n] = 1 /\ Cardinality(model.exactly_one[n]) = 2
    /\ \E n \in model.node_names : model.exactly_one[n] = {}

(* C5: for depth and overall, the longest path of the emitted cover, summing
   depth_cost over the selected cuts and counting the cut of the bottom node,
   is <= the depth D that Phase A reported. *)
C5_LongestPathWithinD ==
    (Emitted /\ objective_mode \in DepthModes) =>
        CoverDepth(data, out_file.chosen_cuts) <= best_depth

\* a declared output names no catalog node
HasMissingOutput ==
    \E out \in Range(DictGet(data, "outputs", <<>>)) : out \notin NodeNames(data)

(* C6: when a declared output names a node that is not in the catalog,
   solve_circuit does not succeed: it returns no OPTIMAL or FEASIBLE status
   (the claim asks for INFEASIBLE) and writes no chosen-cuts file. *)
C6_MissingOutputFails ==
    (pc = "returned" /\ HasMissingOutput) =>
        ret.status \notin {"OPTIMAL", "FEASIBLE"} /\ ~Emitted

\* the covers of the catalog: what the depth model without a fixed depth admits
FeasibleCovers ==
    LET m == BuildModel(data, depth_bound, None)
    IN  {ExtractChosenCuts(m, s) : s \in SolverValues(m)}

BothPhasesOptimal == status_a = "OPTIMAL" /\ status_b = "OPTIMAL"

(* C7: under mode depth the emitted cover has the minimum depth over all
   feasible covers, and the minimum total area_cost among the covers of that
   depth (stated here for runs whose two phases both end OPTIMAL). *)
C7_MinDepthThenMinArea ==
    (pc = "returned" /\ objective_mode = "depth" /\ Emitted /\ BothPhasesOptimal) =>
        LET covers == FeasibleCovers
            least == Min({CoverDepth(data, c) : c \in covers})
            shallow == {c \in covers : CoverDepth(data, c) = least}
        IN  /\ CoverDepth(data, out_file.chosen_cuts) = least
            /\ CoverArea(data, out_file.chosen_cuts) =
                  Min({CoverArea(data, c) : c \in shallow})

(* C8: under mode overall the returned cover, with the depth D it reports,
   minimizes 100*D + 10*(sum of area_cost) + 1*(sum of inv_cost) over all
   solutions of the depth-enabled model (stated here for runs whose two
   phases both end OPTIMAL). *)
C8_OverallWeightedMinimum ==
    (pc = "returned" /\ objective_mode = "overall" /\ Emitted /\ BothPhasesOptimal) =>
        LET m == BuildModel(data, depth_bound, None)
        IN  alpha_depth * best_depth
              + beta_area * CoverArea(data, out_file.chosen_cuts)
              + gamma_inv * CoverInv(data, out_file.chosen_cuts)
            = Min({ObjectiveValue(m, "overall", s) : s \in SolverValues(m)})

(* C9: the chosen-cuts file is written only when the solve produced OPTIMAL
   or FEASIBLE; for og, inv and area any other solver status is returned with
   objective_value None and the output path is left unwritten. *)
C9_WrittenOnlyOnSuccess ==
    /\ Emitted => ret.status \in {"OPTIMAL", "FEASIBLE"}
    /\ (pc = "returned" /\ objective_mode \notin DepthModes
          /\ ret.status \notin {"OPTIMAL", "FEASIBLE"}) =>
            /\ ret.status \in {"INFEASIBLE", "UNKNOWN"}
            /\ ret.objective_value = None
            /\ ~Emitted

\* an area solve of a feasible model ends UNKNOWN and returns without a file
C9_Witness ==
    /\ pc = "returned"
    /\ objective_mode = "area"
    /\ ret = [status |-> "UNKNOWN", objective_value |-> None]
    /\ SolverValues(model) # {}
    /\ ~Emitted

(* C10: in depth and overall modes, if Phase B ends OPTIMAL or FEASIBLE the
   emitted chosen_cuts (the cuts of a solution of the Phase B model, which is
   the model built last) and the returned status are Phase B's and
   objective_value is Phase A's best_depth; if Phase B ends with any other
   status the emitted chosen_cuts are exactly the cuts captured from Phase A,
   the returned status is Phase A's, and the file is still written. *)
C10_PhaseBOrFallback ==
    (pc = "returned" /\ status_b # "") =>
        IF status_b \in {"OPTIMAL", "FEASIBLE"}
        THEN /\ Emitted
             /\ ret.status = status_b
             /\ ret.objective_value = best_depth
             /\ \E s \in BoolSolutions(model) :
                   /\ ExtractChosenCuts(model, s) = out_file.chosen_cuts
                   /\ FeasibleD(model, s) # {}
        ELSE /\ Emitted
             /\ out_file.chosen_cuts = phase_a_cuts
             /\ ret.status = status_a

\* Phase B ended UNKNOWN after a Phase A that chose cuts, and Phase A's cuts
\* were written; Phase B's own solutions include a different cover
C10_Witness ==
    /\ pc = "returned"
    /\ status_b = "UNKNOWN"
    /\ Emitted
    /\ out_file.chosen_cuts = phase_a_cuts
    /\ DOMAIN phase_a_cuts # {}
    /\ \E s \in SolverValues(model) : ExtractChosenCuts(model, s) # phase_a_cuts

----------------------------------------------------------------------------
(* C11: in depth and overall modes, when Phase A ends with a status other than
   OPTIMAL or FEASIBLE the driver returns that status with objective_value
   None, the Phase B model is never built or solved, and no chosen-cuts file
   is written. *)
C11_PhaseAFailureAborts ==
    (objective_mode \in DepthModes /\ status_a \notin OkStatuses \cup {""}) =>
        /\ pc \in {"returned", "exited"}
        /\ ret = [status |-> status_a, objective_value |-> None]
        /\ model.fix_depth = None
        /\ status_b = ""
        /\ ~Emitted

\* Phase A was infeasible and solve_circuit has returned
C11_Witness ==
    /\ pc = "returned"
    /\ objective_mode \in DepthModes
    /\ status_a = "INFEASIBLE"
    /\ ret.status = "INFEASIBLE"

(* C12: the command-line run exits with code 0 exactly when the solve status
   is FEASIBLE or OPTIMAL, and with a non-zero code for every other status. *)
C12_ExitCodeReflectsStatus ==
    pc = "exited" =>
        (exit_code = 0 <=> (exc = "" /\ ret.status \in OkStatuses))

\* the objective modes of the table
ObjectiveTable ==
    {"og", "original", "inv", "area", "depth", "overall",
     "depth_tiebreak_area", "overall_tiebreak"}

(* C13: an objective mode outside the table makes solve_circuit fail with the
   bad-objective error (ValueError) before any solver call: no solve is
   started, nothing is returned and no chosen-cuts file is written. *)
C13_UnknownModeRaises ==
    objective_mode \notin ObjectiveTable =>
        /\ pc \in {"load", "build_single", "raised"}
        /\ pc = "raised" => exc = "ValueError"
        /\ exc \in {"", "ValueError"}
        /\ final_status = "" /\ status_a = "" /\ status_b = ""
        /\ ret = NoReturn
        /\ ~Emitted

\* an unknown mode has been refused
C13_Witness ==
    /\ objective_mode = UnknownMode
    /\ pc = "raised"
    /\ exc = "ValueError"
    /\ model # NoModel

----------------------------------------------------------------------------
\* a record-form cut whose cost fields are each left out or equal to the default
HasDefaultCosts(cut) ==
    /\ cut.form = "dict"
    /\ DictGet(cut, "inv_cost", 0) = 0
    /\ DictGet(cut, "area_cost", Len(cut.leaves)) = Len(cut.leaves)
    /\ DictGet(cut, "depth_cost", 1) = 1

\* the raw catalog d with every such record written as a bare leaf list
BareTwin(d) ==
    [d EXCEPT !.nodes =
        [i \in DOMAIN d.nodes |->
            [d.nodes[i] EXCEPT !.cuts =
                [j \in DOMAIN d.nodes[i].cuts |->
                    IF HasDefaultCosts(d.nodes[i].cuts[j])
                    THEN BareCut(d.nodes[i].cuts[j].leaves)
                    ELSE d.nodes[i].cuts[j]]]]]

\* every cut of d is a record with the three cost fields
AllCostsExplicit(d) ==
    \A i \in DOMAIN d.nodes : \A j \in DOMAIN d.nodes[i].cuts :
        /\ d.nodes[i].cuts[j].form = "dict"
        /\ {"inv_cost", "area_cost", "depth_cost"} \subseteq DOMAIN d.nodes[i].cuts[j]

(* C14: normalization does not depend on the representation: loading a
   catalog gives the same internal catalog as loading it with every
   default-cost record written as a bare leaf list, and every cut of the
   internal catalog is a record with all three cost fields. *)
C14_NormalizationIsRepresentationIndependent ==
    [][pc = "load" =>
          /\ data' = NormalizeCutsData(BareTwin(data))
          /\ AllCostsExplicit(data')]_vars

\* some cut record of d carries a cost field that is not an integer
HasNonIntegerCost(d) ==
    \E i \in DOMAIN d.nodes : \E j \in DOMAIN d.nodes[i].cuts :
        \E k \in {"inv_cost", "area_cost", "depth_cost"} :
            DictGet(d.nodes[i].cuts[j], k, 0) = NotInteger

(* C15: a catalog in which a cut record has a non-integer cost field is
   refused with an error before any model is built or solved: no model is
   built, no file is written, and solve_circuit does not return a result. *)
C15_NonIntegerCostRejected ==
    HasNonIntegerCost(data) =>
        /\ model = NoModel
        /\ ret = NoReturn
        /\ ~Emitted
        /\ pc \in {"load", "build_a", "build_single", "raised", "exited"}
        /\ pc = "exited" => exc # ""

----------------------------------------------------------------------------
\* the cost of cover cc that mode og (10*inv + area) or mode area counts
CoverCost(mode, d, cc) ==
    IF mode = "area" THEN CoverArea(d, cc)
    ELSE lambda_inv * CoverInv(d, cc) + lambda_area * CoverArea(d, cc)

\* a run in mode og or area that ended OPTIMAL and wrote its cover
OptimalCostRun ==
    /\ pc = "returned"
    /\ objective_mode \in {"og", "area"}
    /\ ret.status = "OPTIMAL"
    /\ Emitted

(* C16 as stated: in og mode an OPTIMAL solve emits a cover that minimizes the
   sum of 10*inv_cost + area_cost over all covers satisfying (A), (B) and the
   root constraint, and in area mode one that minimizes the sum of area_cost. *)
C16_OptimalIsMinimum ==
    OptimalCostRun =>
        CoverCost(objective_mode, data, out_file.chosen_cuts)
          = Min({CoverCost(objective_mode, data, c) : c \in FeasibleCovers})

(* C16 amended: the cost of the cover an OPTIMAL og or area solve emits is
   within the relative gap 0.05 of the minimum, cost - min <= 0.05 * max(1,
   cost); it is the minimum itself whenever the cost is below 20. *)
C16_OptimalWithinRelativeGap ==
    OptimalCostRun =>
        LET cost == CoverCost(objective_mode, data, out_file.chosen_cuts)
            least == Min({CoverCost(objective_mode, data, c) : c \in FeasibleCovers})
        IN  /\ 100 * (cost - least) <= RelativeGapPct * Max({1, cost})
            /\ cost < 20 => cost = least

\* the catalog with cuts (inv 5, area 2) and (inv 0, area 3): og has emitted
\* the second cut
C16_Witness ==
    /\ OptimalCostRun
    /\ objective_mode = "og"
    /\ data.nodes # <<>>
    /\ DictGet(data.nodes[1].cuts[1], "inv_cost", 0) = 5
    /\ out_file.chosen_cuts = [n \in {"a"} |-> 1]

----------------------------------------------------------------------------
(* C17: two runs of the area objective on the same catalog (the seed is the
   same in every run) that both end OPTIMAL yield identical chosen_cuts
   mappings, also when several covers tie for the minimum area: every OPTIMAL
   outcome of the solve extracts to the same mapping. *)
C17_AreaRunsAgree ==
    (pc = "solve_single" /\ objective_mode = "area") =>
        \A o1, o2 \in {o \in SingleOutcomes : o.status = "OPTIMAL"} :
            ExtractChosenCuts(model, o1.sol) = ExtractChosenCuts(model, o2.sol)

----------------------------------------------------------------------------
\* a depth-enabled model has been built and is about to be solved
SolvingDepth == pc \in {"solve_a", "solve_b"}

(* C18: the level-linking constraint of a cut (n,i) and a catalog leaf l is
   equivalent to the implication chosen[n,i] = 1 => level[n] >= level[l] +
   depth_cost: with chosen[n,i] = 1 it is that inequality, and with
   chosen[n,i] = 0 it excludes no values of level[n] and level[l] in their
   domain [0, depth_bound]. *)
C18_BigMIsImplication ==
    SolvingDepth =>
        \A c \in model.level_links :
            \A node_level, leaf_level \in 0..model.max_depth_bound :
                (c.node = c.leaf => node_level = leaf_level) =>
                    /\ LevelLink(node_level, leaf_level, c.step,
                                 model.max_depth_bound, 1)
                          <=> node_level >= leaf_level + c.step
                    /\ LevelLink(node_level, leaf_level, c.step,
                                 model.max_depth_bound, 0)

----------------------------------------------------------------------------
\* the selection cc is acyclic: its nodes can be ranked so that every node
\* ranks above the catalog leaves of its selected cut
IsAcyclic(d, cc) ==
    \E rank \in [DOMAIN cc -> 1..Len(d.nodes)] :
        \A n \in DOMAIN cc : \A l \in CatalogLeaves(d, cc, n) \cap DOMAIN cc :
            rank[n] > rank[l]

\* the model without depth admits an acyclic selection
HasAcyclicCover(d) ==
    LET m == BuildModel(d, None, None)
    IN  \E b \in BoolSolutions(m) : IsAcyclic(d, ExtractChosenCuts(m, b))

(* C19: the depth bound causes no spurious infeasibility: for a catalog that
   admits an acyclic cover satisfying (A), (B) and the root constraint, with
   no catalog node declared an input, the Phase A model built with
   UB = max(depth_upper_bound(catalog), len(nodes)) has a solution. *)
C19_DepthModelFeasible ==
    (pc = "solve_a" /\ HasAcyclicCover(data) /\ LevelPinned(data) = {}) =>
        SolverValues(model) # {}

----------------------------------------------------------------------------
\* the search has ended: the bound is returned, or an exception left it
DfsEnded == dfs.status \in {"done", "raised"}

\* no name is expanded twice
ExpandedOnce ==
    \A i, j \in DOMAIN dfs.expanded : dfs.expanded[i] = dfs.expanded[j] => i = j

\* a call on a name that is on the DFS stack returns the sentinel at once
CycleReturnsSentinel ==
    (HasCall /\ Callee \in dfs.visiting) =>
        /\ dfs'.last = [kind |-> "cycle", name |-> Callee,
                        val |-> Max({Len(data.nodes), 1})]
        /\ Len(dfs'.stack) = Len(dfs.stack)
        /\ dfs'.expanded = dfs.expanded
        /\ dfs'.memo = dfs.memo

(* C20: _compute_depth_upper_bound terminates on every catalog, also when the
   cut leaves form cycles: a name met again while it is on the DFS stack
   returns the sentinel max(len(nodes), 1) without further recursion, every
   name is expanded at most once, and the search ends. *)
C20_DepthBoundTerminates ==
    /\ []ExpandedOnce
    /\ [][CycleReturnsSentinel]_vars
    /\ <>DfsEnded

\* the search of a catalog whose cuts form the cycle a -> b -> a has ended,
\* with both nodes expanded
C20_Witness ==
    /\ dfs.status = "done"
    /\ Len(dfs.expanded) = 2
    /\ dfs.ub = ComputeDepthUpperBound(data)
    /\ \E i \in DOMAIN data.nodes : \E j \in DOMAIN data.nodes[i].cuts :
          /\ data.nodes[i].name = "a"
          /\ data.nodes[i].cuts[j].leaves = <<"b">>
    /\ \E i \in DOMAIN data.nodes : \E j \in DOMAIN data.nodes[i].cuts :
          /\ data.nodes[i].name = "b"
          /\ data.nodes[i].cuts[j].leaves = <<"a">>

----------------------------------------------------------------------------
\* base: the largest greedy depth over the roots, or max(len(nodes), 1) when
\* the root set is empty
GreedyBase ==
    IF dfs.vals # {} THEN Max(dfs.vals) ELSE Max({Len(data.nodes), 1})

\* the smallest integer that is at least num / 2
CeilHalf(num) == (num + 1) \div 2

\* the largest integer that is at most num / 2
FloorHalf(num) == num \div 2

(* C21: for every catalog, depth_upper_bound returns exactly
   max(base + 10, ceil(1.5 * base), len(nodes), 1), with base the largest
   greedy depth over the roots (max(len(nodes), 1) when the root set is
   empty); the ceiling is taken for odd base values such as base = 21. *)
C21_DepthBoundCeiling ==
    dfs.status = "done" =>
        dfs.ub = Max({GreedyBase + 10, CeilHalf(3 * GreedyBase),
                      Len(data.nodes), 1})

(* C21, amended: depth_upper_bound returns exactly
   max(base + 10, floor(1.5 * base), len(nodes), 1): 1.5 * base is truncated,
   so that an odd base of 23 gives 34 and an odd base of 21 gives 31. *)
C21_DepthBoundTruncates ==
    dfs.status = "done" =>
        dfs.ub = Max({GreedyBase + 10, FloorHalf(3 * GreedyBase),
                      Len(data.nodes), 1})

\* the bound of a catalog whose greedy depth is 23 is returned: 34, which is
\* the truncated product and more than base + 10
C21_Witness ==
    /\ dfs.status = "done"
    /\ dfs.vals = {23}
    /\ dfs.ub = 34

\* the bound of the catalog with no node is returned: the root set is empty
C21_WitnessEmptyRoots ==
    /\ dfs.status = "done"
    /\ data.nodes = <<>>
    /\ dfs.vals = {}
    /\ dfs.ub = 11

----------------------------------------------------------------------------
\* the catalog nodes declared as primary inputs
DeclaredInputNodes == NodeNames(data) \cap Range(data.inputs)

(* C22: in every solution of the depth-enabled model, level[n] = 0 iff node n
   is unused or n is a declared primary input present in the catalog: an
   unused node has level 0, a used non-input node has level >= 1, and a
   catalog node named in inputs has level 0 even when used; D is at least
   every level and lies in [0, depth_bound]. *)
C22_LevelZeroIffUnusedOrInput ==
    SolvingDepth =>
        \A s \in Solutions(model) :
            /\ \A n \in NodeNames(data) :
                  /\ s.level[n] = 0 <=> (s.used[n] = 0 \/ n \in DeclaredInputNodes)
                  /\ (s.used[n] = 1 /\ n \notin DeclaredInputNodes) => s.level[n] >= 1
                  /\ s.D >= s.level[n]
            /\ s.D \in 0..depth_bound

\* the Phase A model of a catalog that declares its node a an input has a
\* solution where a is used at level 0 and the root is above it
C22_Witness ==
    /\ pc = "solve_a"
    /\ "a" \in DeclaredInputNodes
    /\ \E s \in Solutions(model) :
          /\ s.used["a"] = 1 /\ s.level["a"] = 0
          /\ s.used["Nout"] = 1 /\ s.level["Nout"] >= 1
          /\ s.D >= s.level["Nout"]

\* a Phase A model has a solution with an unused node, at level 0
C22_WitnessUnused ==
    /\ pc = "solve_a"
    /\ \E s \in Solutions(model) : \E n \in NodeNames(data) :
          s.used[n] = 0 /\ s.level[n] = 0

----------------------------------------------------------------------------
\* the edges node -> catalog leaf of the cuts chosen in assignment s
ChosenEdges(m, s) ==
    {e \in m.node_names \X m.node_names :
        \E id \in m.cut_vars :
            /\ s.cut[id] = 1
            /\ id[1] = e[1]
            /\ e[2] \in Range(m.var_cut[id[1]][id[2]].leaves)}

RECURSIVE ReachedFrom(_, _, _)
\* the nodes reached from the set S along the edges E in at most fuel steps
ReachedFrom(E, S, fuel) ==
    IF fuel = 0 THEN S
    ELSE ReachedFrom(E, S \cup {e[2] : e \in {x \in E : x[1] \in S}}, fuel - 1)

\* some chain of edges of E leads from a node back to itself
HasCycle(E, nodes) ==
    \E n \in nodes :
        n \in ReachedFrom(E, {e[2] : e \in {x \in E : x[1] = n}}, Cardinality(nodes))

(* C23: in every solution of the depth-enabled model (Phase A and Phase B)
   the dependency graph formed by the chosen cuts' catalog leaves is acyclic:
   no chosen cut lists its own node among its leaves, and no chain of chosen
   cuts leads from a node back to itself. *)
C23_ChosenCutsAcyclic ==
    SolvingDepth =>
        \A s \in SolverValues(model) :
            /\ \A id \in model.cut_vars :
                  s.cut[id] = 1 =>
                      id[1] \notin Range(model.var_cut[id[1]][id[2]].leaves)
            /\ ~HasCycle(ChosenEdges(model, s), model.node_names)

\* a depth-enabled model is being solved whose constraints (A), (B) and roots
\* admit a selection with a chain of cuts from a node back to itself, and
\* which has solutions: none of them is that selection
C23_Witness ==
    /\ SolvingDepth
    /\ SolverValues(model) # {}
    /\ \E b \in BoolSolutions(model) :
          /\ HasCycle(ChosenEdges(model, b), model.node_names)
          /\ \A e \in ChosenEdges(model, b) : e[1] # e[2]

----------------------------------------------------------------------------
\* the model has no level variable and no D
HasNoDepthPart(m) ==
    /\ ~m.include_depth
    /\ m.level_pinned = {} /\ m.level_floors = {} /\ m.level_links = {}
    /\ m.max_depth_bound = 0 /\ m.fix_depth = None

(* C24: through solve_circuit the "depth model not built" error is
   unreachable: whenever apply_objective is called with mode depth (or
   overall), its model was built with a depth bound, so D exists; and every
   model built for og, inv or area has no level variables and no D. *)
C24_DepthErrorUnreachable ==
    /\ exc # "RuntimeError"
    /\ (objective_mode \in DepthModes /\ model # NoModel) =>
          /\ model.include_depth
          /\ ApplyObjective(model, "depth") = "ok"
          /\ ApplyObjective(model, "overall") = "ok"
    /\ (objective_mode \in {"og", "inv", "area"} /\ model # NoModel) =>
          HasNoDepthPart(model)

\* apply_objective("depth") has returned on the Phase A model of an overall
\* run, which has D and level constraints
C24_Witness ==
    /\ pc = "solve_a"
    /\ objective_mode = "overall"
    /\ exc = ""
    /\ model.include_depth
    /\ model.level_floors # {}

\* the single model of an area run is built and its objective applied
C24_WitnessSingle ==
    /\ pc = "solve_single"
    /\ objective_mode = "area"
    /\ HasNoDepthPart(model)

----------------------------------------------------------------------------
\* Phase B has ended without a solution
PhaseBFellBack == status_b # "" /\ status_b \notin OkStatuses

(* C25: Phase B can never be infeasible after a successful Phase A: the
   Phase B model is the Phase A model (same catalog, same depth bound) plus
   D == best_depth, so the assignment Phase A returned satisfies every
   Phase B constraint; the fallback to Phase A's cuts is reached only when
   Phase B ends UNKNOWN. *)
C25_PhaseBFeasible ==
    /\ pc = "solve_b" =>
          /\ model = [BuildModel(data, depth_bound, None) EXCEPT !.fix_depth = best_depth]
          /\ \E s \in SolverValues(model) :
                /\ s.D = best_depth
                /\ ExtractChosenCuts(model, s) = phase_a_cuts
          /\ [status |-> "INFEASIBLE"] \notin PhaseBOutcomes
    /\ status_b # "INFEASIBLE"
    /\ PhaseBFellBack => status_b = "UNKNOWN"

\* Phase B ended UNKNOWN on a model that has solutions, after a Phase A that
\* stopped at its first solution, and Phase A's cuts are the result
C25_Witness ==
    /\ pc = "write"
    /\ status_a = "FEASIBLE"
    /\ status_b = "UNKNOWN"
    /\ SolverValues(model) # {}
    /\ phase_a_cuts # EmptyDict
    /\ chosen_cuts = phase_a_cuts

----------------------------------------------------------------------------
\* every cut of the catalog has an area_cost of at least 1
AllAreaPositive(d) ==
    \A i \in DOMAIN d.nodes : \A j \in DOMAIN d.nodes[i].cuts :
        DictGet(d.nodes[i].cuts[j], "area_cost",
                Len(d.nodes[i].cuts[j].leaves)) >= 1

\* the roots of a cover: the declared outputs, or Nout, or the last node
CoverRoots(d) ==
    IF d.outputs # <<>> THEN Range(d.outputs)
    ELSE IF "Nout" \in NodeNames(d) THEN {"Nout"}
    ELSE IF d.nodes # <<>> THEN {d.nodes[Len(d.nodes)].name}
    ELSE {}

\* the edges node -> catalog leaf of the cuts the mapping cc selects
SelectedEdges(d, cc) ==
    {e \in (DOMAIN cc) \X NodeNames(d) : e[2] \in CatalogLeaves(d, cc, e[1])}

\* the nodes of cc no root reaches along the selected cuts
Superfluous(d, cc) ==
    DOMAIN cc \ ReachedFrom(SelectedEdges(d, cc), CoverRoots(d) \cap DOMAIN cc,
                            Len(d.nodes))

\* an area run ended OPTIMAL on a catalog whose cuts all have area_cost >= 1,
\* and its cover is written
AreaOptimalEmitted ==
    /\ Emitted
    /\ objective_mode = "area"
    /\ final_status = "OPTIMAL"
    /\ AllAreaPositive(data)

(* C26: the emitted cover contains no superfluous nodes when every cut has
   area_cost >= 1: in area mode with an OPTIMAL result, every node in
   chosen_cuts is reachable from a root (declared output, or the Nout or
   last-node fallback) by following catalog leaves of selected cuts. *)
C26_NoSuperfluousNodes ==
    AreaOptimalEmitted => Superfluous(data, out_file.chosen_cuts) = {}

(* C26, amended: in area mode with an OPTIMAL result whose objective value is
   below 20, with every area_cost >= 1, every node in chosen_cuts is
   reachable from a root by following catalog leaves of selected cuts. *)
C26_NoSuperfluousBelowGap ==
    (AreaOptimalEmitted /\ final_objective < 20) =>
        Superfluous(data, out_file.chosen_cuts) = {}

\* an area run ended OPTIMAL below 20 and wrote a cover that leaves out a node
\* which has a cut over a primary input: the node could have been added
C26_Witness ==
    /\ AreaOptimalEmitted
    /\ final_objective < 20
    /\ out_file.chosen_cuts # EmptyDict
    /\ \E i \in DOMAIN data.nodes :
          /\ data.nodes[i].name \notin DOMAIN out_file.chosen_cuts
          /\ \E j \in DOMAIN data.nodes[i].cuts :
                data.nodes[i].cuts[j].leaves = <<PI>>

====
